---- MODULE Spec2Model ----
(***************************************************************************)
(* Model of lkml-to-mbox.py: a counted loop that appends the message in    *)
(* file 'm' to the mailbox 'mbox' and then checks out the previous         *)
(* revision with `git checkout -q HEAD^`.                                  *)
(*                                                                         *)
(* Text is a sequence of one-character strings.  An optional value (the    *)
(* result of msg.get, a file that may not exist) is a sequence of length   *)
(* at most one: <<>> is None / no file, <<v>> is the value v.              *)
(***************************************************************************)
EXTENDS Integers, Sequences, FiniteSets, TLC

\* ---------------------------------------------------------------- bounds
MaxHist == 3
MaxCount == 3
MaxFromLen == 6

\* ------------------------------------------------------------ text helpers
None == <<>>
Some(v) == <<v>>

NL == "\n"

Digits == <<"0", "1", "2", "3", "4", "5", "6", "7", "8", "9">>

Digit(d) == Digits[d + 1]

\* "%02d" with a fill character: "%2d" fills with a space, "%02d" with "0"
Dec2(n, fill) ==
    IF n < 10 THEN <<fill, Digit(n)>> ELSE <<Digit(n \div 10), Digit(n % 10)>>

\* "%04d"
Dec4(n) ==
    <<Digit((n \div 1000) % 10), Digit((n \div 100) % 10),
      Digit((n \div 10) % 10), Digit(n % 10)>>

DayNames == << <<"S","u","n">>, <<"M","o","n">>, <<"T","u","e">>, <<"W","e","d">>,
               <<"T","h","u">>, <<"F","r","i">>, <<"S","a","t">> >>

MonthNames == << <<"J","a","n">>, <<"F","e","b">>, <<"M","a","r">>, <<"A","p","r">>,
                 <<"M","a","y">>, <<"J","u","n">>, <<"J","u","l">>, <<"A","u","g">>,
                 <<"S","e","p">>, <<"O","c","t">>, <<"N","o","v">>, <<"D","e","c">> >>

\* ------------------------------------------------------- Date header tokens
\* A Date header value is the sequence of its whitespace-separated tokens.
\*   day  : a day name with its comma ("Sat,")
\*   num  : a decimal number a
\*   mon  : the month name number a
\*   time : a:b:c
\*   tz   : a signed numeric zone, a = +-hhmm
\*   word : any other text
Tok(k, a, b, c) == [k |-> k, a |-> a, b |-> b, c |-> c]
TDay == Tok("day", 0, 0, 0)
TNum(n) == Tok("num", n, 0, 0)
TMon(m) == Tok("mon", m, 0, 0)
TTime(h, m, s) == Tok("time", h, m, s)
TTz(z) == Tok("tz", z, 0, 0)
TWord == Tok("word", 0, 0, 0)
TEmpty == Tok("empty", 0, 0, 0)

\* 'Sat, 3 Jan 1970 12:34:56 -0800'
FakeDate == <<TDay, TNum(3), TMon(1), TNum(1970), TTime(12, 34, 56), TTz(-800)>>

\* 'From: unknown@example.com'
FakeFrom == <<"F","r","o","m",":"," ","u","n","k","n","o","w","n","@",
              "e","x","a","m","p","l","e",".","c","o","m">>

\* 'unknown@example.com'
FallbackAddress == SubSeq(FakeFrom, 7, Len(FakeFrom))

\* ----------------------------------------------------- re.sub(r'.*<|>.*')
\* First index at or after i that ends the line holding i ('.' does not
\* match a newline): the index of the newline, or Len(s) + 1.
LineEnd(s, i) ==
    IF \E j \in i..Len(s) : s[j] = NL
    THEN CHOOSE j \in i..Len(s) : s[j] = NL /\ \A k \in i..(j - 1) : s[k] # NL
    ELSE Len(s) + 1

\* '.*<' at i: greedy, so it ends at the last '<' of the line; 0 if none
LastLt(s, i) ==
    LET c == {j \in i..(LineEnd(s, i) - 1) : s[j] = "<"}
    IN  IF c = {} THEN 0 ELSE CHOOSE j \in c : \A k \in c : k <= j

RECURSIVE ReSubFrom(_, _)
ReSubFrom(s, i) ==
    IF i > Len(s) THEN <<>>
    ELSE IF LastLt(s, i) # 0 THEN ReSubFrom(s, LastLt(s, i) + 1)
    ELSE IF s[i] = ">" THEN ReSubFrom(s, LineEnd(s, i))
    ELSE <<s[i]>> \o ReSubFrom(s, i + 1)

re_sub(s) == ReSubFrom(s, 1)

\* ------------------------------------------------- email.utils.parsedate_tz
IsInt(t) == t.k \in {"num", "tz"}

SecondsOfZone(z) ==
    IF z < 0 THEN -((((-z) \div 100) * 3600) + (((-z) % 100) * 60))
    ELSE ((z \div 100) * 3600) + ((z % 100) * 60)

\* The result is None or Some(<<yy, mm, dd, thh, tmm, tss, tzoffset>>).
parsedate_tz(data) ==
    IF data = <<>> THEN None
    ELSE
    LET d1 == IF data[1].k = "day" THEN Tail(data) ELSE data
        d2 == IF Len(d1) = 4 THEN Append(d1, TEmpty) ELSE d1
    IN  IF Len(d2) < 5 THEN None
        ELSE
        LET swapM == d2[2].k # "mon"
            dd  == IF swapM THEN d2[2] ELSE d2[1]
            mm  == IF swapM THEN d2[1] ELSE d2[2]
            swapT == d2[3].k = "time"
            yy1 == IF swapT THEN d2[4] ELSE d2[3]
            tm  == IF swapT THEN d2[3] ELSE d2[4]
            swapZ == yy1.k # "num"
            yy  == IF swapZ THEN d2[5] ELSE yy1
            tz  == IF swapZ THEN yy1 ELSE d2[5]
        IN  IF mm.k # "mon" THEN None
            ELSE IF tm.k # "time" THEN None
            ELSE IF ~(IsInt(yy) /\ IsInt(dd)) THEN None
            ELSE
            LET year == IF yy.a >= 0 /\ yy.a < 100
                        THEN (IF yy.a > 68 THEN yy.a + 1900 ELSE yy.a + 2000)
                        ELSE yy.a
                tzoffset == IF IsInt(tz) THEN SecondsOfZone(tz.a) ELSE 0
            IN  Some(<<year, mm.a, dd.a, tm.a, tm.b, tm.c, tzoffset>>)

\* ------------------------------------------------------ calendar arithmetic
\* days from 1970-01-01 to the civil date y-m-d (proleptic Gregorian)
DaysFromCivil(y, m, d) ==
    LET yp  == IF m <= 2 THEN y - 1 ELSE y
        era == yp \div 400
        yoe == yp - era * 400
        mp  == (m + 9) % 12
        doy == ((153 * mp + 2) \div 5) + d - 1
        doe == yoe * 365 + (yoe \div 4) - (yoe \div 100) + doy
    IN  era * 146097 + doe - 719468

\* the civil date <<y, m, d>> of the day z days after 1970-01-01
CivilFromDays(z) ==
    LET zp  == z + 719468
        era == zp \div 146097
        doe == zp - era * 146097
        yoe == (doe - (doe \div 1460) + (doe \div 36524) - (doe \div 146096)) \div 365
        doy == doe - (365 * yoe + (yoe \div 4) - (yoe \div 100))
        mp  == (5 * doy + 2) \div 153
        d   == doy - ((153 * mp + 2) \div 5) + 1
        m   == IF mp < 10 THEN mp + 3 ELSE mp - 9
        y   == yoe + era * 400
    IN  <<IF m <= 2 THEN y + 1 ELSE y, m, d>>

\* email.utils.mktime_tz: calendar.timegm(data) - data[9]
mktime_tz(t) ==
    (((DaysFromCivil(t[1], t[2], 1) + t[3] - 1) * 24 + t[4]) * 60 + t[5]) * 60
        + t[6] - t[7]

\* datetime.datetime.fromtimestamp(timestamp) in the zone whose offset from
\* UTC is tzlocal seconds, then .ctime(): "%s %s %2d %02d:%02d:%02d %04d"
ctime(timestamp, tzlocal) ==
    LET loc  == timestamp + tzlocal
        days == loc \div 86400
        secs == loc % 86400
        ymd  == CivilFromDays(days)
    IN  DayNames[((days + 4) % 7) + 1] \o <<" ">> \o MonthNames[ymd[2]] \o <<" ">>
          \o Dec2(ymd[3], " ") \o <<" ">>
          \o Dec2(secs \div 3600, "0") \o <<":">> \o Dec2((secs \div 60) % 60, "0")
          \o <<":">> \o Dec2(secs % 60, "0") \o <<" ">> \o Dec4(ymd[1])

\* ------------------------------------------------------------- the inputs
\* A message file: its From and Date header values (optional) and its body,
\* a sequence of bytes of which "X" is not valid in the text encoding.
File(f, d, b) == [From |-> f, Date |-> d, body |-> b]

Arg(n) == [num |-> TRUE, val |-> n]
ArgStr == [num |-> FALSE, val |-> 0]

\* sys.argv, the program name first
Argvs ==
    {<<ArgStr>>}
      \cup {<<ArgStr, a>> : a \in {Arg(n) : n \in (-1)..MaxCount} \cup {ArgStr}}
      \cup {<<ArgStr, Arg(n), ArgStr>> : n \in 0..MaxCount}

\* 'Thu, 1 Feb 2024 00:00:00 +0100'
OtherDate == <<TDay, TNum(1), TMon(2), TNum(2024), TTime(0, 0, 0), TTz(100)>>

\* the messages of the histories that are walked
WalkFiles ==
    { File(Some(<<"N", " ", "<", "a", ">">>), Some(OtherDate), <<"b">>),
      File(None, None, <<"b", "X">>),
      File(Some(<<"a">>), Some(<<TWord>>), <<"b">>),
      File(Some(<<"N", NL, " ", "<", "a", ">">>), Some(FakeDate), <<"X">>) }

\* a history: the revisions at and behind the starting checkout, oldest
\* first; a revision holds the file 'm' or lacks it
Histories ==
    UNION {[1..n -> {None} \cup {Some(f) : f \in WalkFiles}] : n \in 1..MaxHist}

\* what 'mbox' holds before the run: no file, an empty file, earlier content
OldWrite == [kind |-> "old", text |-> <<"x", NL>>, msg |-> None]
Mboxes == {None, Some(<<>>), Some(<<OldWrite>>)}

\* offsets of the local time zone from UTC, in seconds
LocalZones == {-28800, 0}

\* header values as msg.get returns them: unfolded lines keep their
\* newline, which is always followed by the continuation's white space
FromAlphabet == {"N", " ", NL, "<", ">", "a"}
IsHeaderValue(s) ==
    /\ \A j \in 1..Len(s) : s[j] = NL => (j < Len(s) /\ s[j + 1] = " ")
    /\ (Len(s) > 0 => s[1] # " ")
FromValues ==
    {s \in UNION {[1..n -> FromAlphabet] : n \in 0..MaxFromLen} : IsHeaderValue(s)}

DateValues ==
    { <<>>, FakeDate, OtherDate, <<TWord>>, <<TDay, TNum(3), TMon(1), TNum(1970)>>,
      <<TNum(3), TMon(1), TNum(70), TTime(12, 34, 0)>>,
      <<TDay, TNum(3), TWord, TNum(1970), TTime(12, 34, 56), TTz(-800)>> }

\* the messages the synthesizer is applied to on its own
EnvFiles ==
    {File(Some(s), Some(FakeDate), <<"b">>) : s \in FromValues}
      \cup {File(f, d, <<"b">>) :
              f \in {None, Some(<<"a">>)},
              d \in {None} \cup {Some(v) : v \in DateValues}}

\* --------------------------------------------------------------- the state
VARIABLES
    argv,       \* sys.argv
    history,    \* the revisions at and behind the starting checkout
    head,       \* index in history of the checked-out revision (HEAD)
    mbox,       \* the file 'mbox': None or Some(sequence of writes)
    mbox0,      \* the file 'mbox' when the program started
    tzlocal,    \* offset of the local time zone
    pc,         \* position of the program
    count,      \* int(sys.argv[1])
    i,          \* the loop variable
    ret,        \* return code of the last git checkout, NoRet before any
    err,        \* the exception that ended the program, "" if none
    stdout,     \* what was written to standard output
    from_line,  \* the envelope line of the last message, None before any
    reads,      \* number of messages read from 'm'
    appends,    \* number of completed appends to 'mbox'
    checkouts   \* number of git checkout commands issued

vars == <<argv, history, head, mbox, mbox0, tzlocal, pc, count, i, ret, err,
          stdout, from_line, reads, appends, checkouts>>

NoRet == -1

\* ------------------------------------------------- generate_envelope_from
\* open(message_filename, 'r', errors='ignore') and email.message_from_file:
\* the undecodable bytes are dropped, the headers are the file's headers
message_from_file(f) ==
    [From |-> f.From, Date |-> f.Date, body |-> SelectSeq(f.body, LAMBDA c : c # "X")]

\* msg.as_string(): the generator writes back the header values and the
\* payload the parser kept, so the text is that of the message as read
\* (the file's text less its undecodable bytes), not that of the file
as_string(msg) == msg

\* `not value` for the result of msg.get: None or the empty string
Falsy(h) == h = None \/ h[1] = <<>>

\* the result: [raised |-> exception name or "", value |-> the From line]
generate_envelope_from(msg, tz) ==
    LET line == IF Falsy(msg.From) THEN FakeFrom ELSE msg.From[1]
        from_address == re_sub(line)
        date_line == IF Falsy(msg.Date) THEN FakeDate ELSE msg.Date[1]
        date_tuple == parsedate_tz(date_line)
    IN  IF date_tuple = None
        THEN [raised |-> "TypeError", value |-> <<>>]
        ELSE [raised |-> "",
              value |-> <<"F", "r", "o", "m", " ">> \o from_address \o <<" ">>
                          \o ctime(mktime_tz(date_tuple[1]), tz)]

\* ----------------------------------------------------- append_msg_to_mbox
Write(kind, text, msg) == [kind |-> kind, text |-> text, msg |-> msg]

\* open(mbox_filename, 'a'): the content writes are appended to
OpenAppend_w(f) == <<>>
OpenAppend(f) == IF f = None THEN <<>> ELSE f[1]

\* the three writes of one message
Block(line, msg) ==
    << Write("envelope", line \o <<NL>>, None),
       Write("message", <<>>, Some(as_string(msg))),
       Write("newline", <<NL>>, None) >>

\* the result: [raised |-> exception name or "", read |-> whether the message
\* was read, line |-> the envelope line if made, mbox |-> the file 'mbox' after]
append_msg_to_mbox_openfirst(m, f, tz) ==
    IF m = None
    THEN [raised |-> "OSError", read |-> FALSE, line |-> None, mbox |-> Some(OpenAppend(f))]
    ELSE LET msg == message_from_file(m[1])
             env == generate_envelope_from(msg, tz)
         IN  IF env.raised # ""
             THEN [raised |-> env.raised, read |-> TRUE, line |-> None, mbox |-> f]
             ELSE [raised |-> "", read |-> TRUE, line |-> Some(env.value),
                   mbox |-> Some(OpenAppend(f) \o Block(env.value, msg))]
append_msg_to_mbox(m, f, tz) ==
    IF m = None
    THEN [raised |-> "OSError", read |-> FALSE, line |-> None, mbox |-> f]
    ELSE LET msg == message_from_file(m[1])
             env == generate_envelope_from(msg, tz)
         IN  IF env.raised # ""
             THEN [raised |-> env.raised, read |-> TRUE, line |-> None, mbox |-> f]
             ELSE [raised |-> "", read |-> TRUE, line |-> Some(env.value),
                   mbox |-> Some(OpenAppend(f) \o Block(env.value, msg))]

\* ------------------------------------------------------------------ __main__
UsageError_lt(a) == Len(a) < 2
UsageError(a) == Len(a) # 2

CheckoutFailed_never(r) == FALSE
CheckoutFailed(r) == r # 0

\* the return codes `git checkout -q HEAD^` can give at revision h: non-zero
\* when the revision has no parent, zero or non-zero otherwise
GitReturns(h) == IF h = 1 THEN {1} ELSE {0, 1}

Init ==
    /\ argv \in Argvs
    /\ history \in Histories
    /\ head = Len(history)
    /\ mbox \in Mboxes
    /\ mbox0 = mbox
    /\ tzlocal \in LocalZones
    /\ pc = "main"
    /\ count = 0
    /\ i = 0
    /\ ret = NoRet
    /\ err = ""
    /\ stdout = <<>>
    /\ from_line = None
    /\ reads = 0
    /\ appends = 0
    /\ checkouts = 0

\* lines 90-99: wrong number of arguments
Usage ==
    /\ pc = "main"
    /\ UsageError(argv)
    /\ stdout' = Append(stdout, [k |-> "usage", n |-> 0])
    /\ pc' = "exit1"
    /\ UNCHANGED <<argv, history, head, mbox, mbox0, tzlocal, count, i, ret, err,
                   from_line, reads, appends, checkouts>>

\* line 101: count = int(sys.argv[1])
ParseCount ==
    /\ pc = "main"
    /\ ~UsageError(argv)
    /\ IF argv[2].num
       THEN /\ count' = argv[2].val
            /\ pc' = "loop"
            /\ err' = err
       ELSE /\ count' = count
            /\ pc' = "raised"
            /\ err' = "ValueError"
    /\ UNCHANGED <<argv, history, head, mbox, mbox0, tzlocal, i, ret, stdout,
                   from_line, reads, appends, checkouts>>

\* lines 103-105: the progress indicator and the append of one iteration
AppendStep ==
    /\ pc = "loop"
    /\ i < count
    /\ stdout' = Append(stdout, [k |-> "progress", n |-> i])
    /\ LET r == append_msg_to_mbox(history[head], mbox, tzlocal)
       IN  /\ mbox' = r.mbox
           /\ reads' = IF r.read THEN reads + 1 ELSE reads
           /\ from_line' = IF r.line = None THEN from_line ELSE r.line
           /\ IF r.raised # ""
              THEN /\ pc' = "raised"
                   /\ err' = r.raised
                   /\ appends' = appends
              ELSE /\ pc' = "checkout"
                   /\ err' = err
                   /\ appends' = appends + 1
    /\ UNCHANGED <<argv, history, head, mbox0, tzlocal, count, i, ret, checkouts>>

\* lines 107-110: git checkout -q HEAD^ and the test of its return code
CheckoutStep ==
    /\ pc = "checkout"
    /\ \E r \in GitReturns(head) :
         /\ ret' = r
         /\ head' = IF r = 0 THEN head - 1 ELSE head
         /\ IF CheckoutFailed(r)
            THEN /\ pc' = "raised"
                 /\ err' = "Exception"
                 /\ i' = i
            ELSE /\ pc' = "loop"
                 /\ err' = err
                 /\ i' = i + 1
    /\ checkouts' = checkouts + 1
    /\ UNCHANGED <<argv, history, mbox, mbox0, tzlocal, count, stdout, from_line,
                   reads, appends>>

\* line 103: range(count) is used up, the program ends
LoopExit ==
    /\ pc = "loop"
    /\ i >= count
    /\ pc' = "exit0"
    /\ UNCHANGED <<argv, history, head, mbox, mbox0, tzlocal, count, i, ret, err,
                   stdout, from_line, reads, appends, checkouts>>

Next == Usage \/ ParseCount \/ AppendStep \/ CheckoutStep \/ LoopExit

Spec == Init /\ [][Next]_vars

\* ------------------------------------- the synthesizer applied on its own
InitEnv ==
    /\ argv = <<ArgStr>>
    /\ history \in {<<Some(f)>> : f \in EnvFiles}
    /\ head = 1
    /\ mbox = None
    /\ mbox0 = mbox
    /\ tzlocal \in LocalZones
    /\ pc = "envelope"
    /\ count = 0
    /\ i = 0
    /\ ret = NoRet
    /\ err = ""
    /\ stdout = <<>>
    /\ from_line = None
    /\ reads = 0
    /\ appends = 0
    /\ checkouts = 0

\* line 81: from_line = generate_envelope_from(msg)
Envelope ==
    /\ pc = "envelope"
    /\ LET env == generate_envelope_from(message_from_file(history[head][1]), tzlocal)
       IN  IF env.raised # ""
           THEN /\ pc' = "raised"
                /\ err' = env.raised
                /\ from_line' = from_line
           ELSE /\ pc' = "returned"
                /\ err' = err
                /\ from_line' = Some(env.value)
    /\ UNCHANGED <<argv, history, head, mbox, mbox0, tzlocal, count, i, ret, stdout,
                   reads, appends, checkouts>>

NextEnv == Envelope

SpecEnv == InitEnv /\ [][NextEnv]_vars

\* ================================================================= claims

\* C1: a run with count = K >= 1 over a history of at least K + 1 revisions,
\* every visited message readable and every step-back succeeding, ends
\* normally with exactly K blocks added to the output, the j-th being the
\* message checked out at the j-th visit, and the checkout K steps back.
C1_WalkAddsKBlocks ==
    LET K   == argv[2].val
        old == IF mbox0 = None THEN <<>> ELSE mbox0[1]
        cur == IF mbox = None THEN <<>> ELSE mbox[1]
    IN  ( /\ pc \in {"exit0", "raised"}
          /\ Len(argv) = 2 /\ argv[2].num /\ K >= 1
          /\ Len(history) >= K + 1
          /\ \A j \in 1..K : history[Len(history) - j + 1] # None
          /\ ret \in {NoRet, 0} )
        => ( /\ pc = "exit0"
             /\ head = Len(history) - K
             /\ Len(cur) = Len(old) + 3 * K
             /\ SubSeq(cur, 1, Len(old)) = old
             /\ \A j \in 1..K :
                  LET f == history[Len(history) - j + 1][1]
                      b == Len(old) + 3 * (j - 1)
                  IN  /\ cur[b + 1].kind = "envelope"
                      /\ cur[b + 2].kind = "message"
                      /\ cur[b + 2].msg =
                           Some([From |-> f.From, Date |-> f.Date,
                                 body |-> SelectSeq(f.body, LAMBDA c : c # "X")])
                      /\ cur[b + 3].kind = "newline" )

\* C2: a run whose count exceeds the length of the history (every message
\* readable, the step-back failing only where no earlier revision exists)
\* halts after the last message with the step-back's error, and the output
\* then holds as many whole blocks as messages were read.
C2_ExhaustedHistoryHalts ==
    LET old == IF mbox0 = None THEN <<>> ELSE mbox0[1]
        cur == IF mbox = None THEN <<>> ELSE mbox[1]
    IN  ( /\ pc \in {"exit0", "raised"}
          /\ Len(argv) = 2 /\ argv[2].num /\ argv[2].val > Len(history)
          /\ \A j \in 1..Len(history) : history[j] # None
          /\ (ret \notin {NoRet, 0} => head = 1) )
        => ( /\ pc = "raised" /\ err = "Exception" /\ ret # 0
             /\ head = 1
             /\ reads = Len(history)
             /\ i = Len(history) - 1
             /\ Len(cur) = Len(old) + 3 * reads )

\* C3: a message whose Date header is present but does not parse gets the
\* envelope line an absent Date gives, nothing is raised, and its block is
\* appended.
C3_BadDateFallsBack ==
    LET m == history[head]
    IN  ( /\ pc \in {"checkout", "raised"}
          /\ err \notin {"ValueError", "Exception"}
          /\ m # None
          /\ m[1].Date # None /\ m[1].Date[1] # <<>>
          /\ parsedate_tz(m[1].Date[1]) = None )
        => ( /\ pc = "checkout"
             /\ err = ""
             /\ from_line = Some(generate_envelope_from(
                               [From |-> m[1].From, Date |-> None, body |-> <<>>],
                               tzlocal).value) )

\* C4: for a message without a From header the envelope line is
\* 'From unknown@example.com <ctime-string>', the tokens one space apart.
C4_MissingFromFallback ==
    ( /\ pc = "returned"
      /\ history[1][1].From = None )
    => ( /\ Len(from_line[1]) = 5 + Len(FallbackAddress) + 1 + 24
         /\ SubSeq(from_line[1], 1, 5 + Len(FallbackAddress) + 1)
              = <<"F", "r", "o", "m", " ">> \o FallbackAddress \o <<" ">> )

\* C5: when the message file cannot be opened in an iteration the run halts
\* there: the output is left as it was, no step-back is issued, no later
\* iteration runs.
C5_ReadFailureHalts ==
    [][ /\ (pc = "loop" /\ i < count /\ history[head] = None)
           => ( /\ pc' = "raised" /\ err' = "OSError"
                /\ mbox' = mbox
                /\ checkouts' = checkouts /\ appends' = appends
                /\ i' = i /\ head' = head )
        /\ (pc = "raised" /\ err = "OSError")
           => (mbox' = mbox /\ checkouts' = checkouts /\ appends' = appends
               /\ i' = i /\ head' = head /\ pc' = pc) ]_vars

C5_Witness ==
    pc = "raised" /\ err = "OSError" /\ appends = 1 /\ mbox0 = None

\* C6: the output is append-only: each step leaves the previous content
\* (the content from before the run too) as a prefix of the new content,
\* and what the run added is a sequence of whole blocks: envelope line,
\* message text, blank line.
C6_AppendOnly ==
    /\ [] ( LET old == IF mbox0 = None THEN <<>> ELSE mbox0[1]
                cur == IF mbox = None THEN <<>> ELSE mbox[1]
            IN  /\ (mbox = None => mbox0 = None)
                /\ Len(cur) = Len(old) + 3 * appends
                /\ SubSeq(cur, 1, Len(old)) = old
                /\ \A j \in 1..appends :
                     LET b == Len(old) + 3 * (j - 1)
                     IN  /\ cur[b + 1].kind = "envelope"
                         /\ cur[b + 1].text[Len(cur[b + 1].text)] = NL
                         /\ cur[b + 2].kind = "message"
                         /\ cur[b + 3].kind = "newline"
                         /\ cur[b + 3].text = <<NL>> )
    /\ [][ LET cur == IF mbox = None THEN <<>> ELSE mbox[1]
               nxt == IF mbox' = None THEN <<>> ELSE mbox'[1]
           IN  /\ Len(nxt) >= Len(cur)
               /\ SubSeq(nxt, 1, Len(cur)) = cur
               /\ (mbox # None => mbox' # None) ]_vars

C6_Witness ==
    mbox0 = Some(<<OldWrite>>) /\ appends = 2 /\ Len(mbox[1]) = 7

\* C7: for a From header 'Name <addr>' the envelope address is addr, and
\* for a bare From header without angle brackets it is the header value.
C7_AddressExtraction ==
    LET v    == history[1][1].From[1]
        addr == SubSeq(from_line[1], 6, Len(from_line[1]) - 25)
    IN  ( /\ pc = "returned"
          /\ history[1][1].From # None
          /\ Len(v) > 0 )
        => /\ \A p \in 2..(Len(v) - 2) :
                ( /\ v[1] = "N"
                  /\ \A j \in 1..(p - 1) : v[j] \in {"N", " ", NL}
                  /\ v[p] = "<"
                  /\ \A j \in (p + 1)..(Len(v) - 1) : v[j] = "a"
                  /\ v[Len(v)] = ">" )
                => addr = SubSeq(v, p + 1, Len(v) - 1)
           /\ (\A j \in 1..Len(v) : v[j] \notin {"<", ">"}) => addr = v

\* C8: with no argument or with two or more the program prints its usage
\* and exits with status 1; nothing is appended, the output file is neither
\* created nor changed, and the checkout stays where it was.
C8_UsageNoEffect ==
    Len(argv) # 2
    => ( /\ pc \in {"main", "exit1"}
         /\ (pc = "exit1" => stdout = <<[k |-> "usage", n |-> 0]>>)
         /\ (pc = "main" => stdout = <<>>)
         /\ mbox = mbox0
         /\ head = Len(history)
         /\ reads = 0 /\ appends = 0 /\ checkouts = 0
         /\ ret = NoRet /\ err = "" )

C8_Witness ==
    pc = "exit1" /\ Len(argv) = 3 /\ argv[2].num /\ argv[2].val >= 1

\* C9: append and step-back alternate strictly: the step-backs issued are as
\* many as the blocks appended or one fewer, the blocks never exceed count,
\* a step-back follows the completed append of its iteration, and after a
\* step-back that returned non-zero nothing more is appended or checked out.
C9_StrictAlternation ==
    /\ [] ( /\ checkouts \in {appends, appends - 1}
            /\ (count >= 0 => appends <= count) )
    /\ [][ /\ (checkouts' # checkouts)
              => ( /\ pc = "checkout"
                   /\ appends = i + 1
                   /\ checkouts = i
                   /\ checkouts' = checkouts + 1
                   /\ appends' = appends )
           /\ (appends' # appends)
              => ( /\ appends' = appends + 1
                   /\ checkouts = appends
                   /\ ret \in {NoRet, 0} )
           /\ (ret \notin {NoRet, 0})
              => (appends' = appends /\ checkouts' = checkouts) ]_vars

C9_Witness ==
    pc = "raised" /\ ret = 1 /\ appends = 2 /\ checkouts = 2 /\ count = 3 /\ head = 2

\* C10: with count = K and exactly K revisions at and behind the starting
\* checkout (every message readable, the step-back failing only where no
\* earlier revision exists) all K blocks are appended and the run still ends
\* with the step-back's error instead of exiting 0.
C10_LastStepBackFails ==
    LET K   == argv[2].val
        old == IF mbox0 = None THEN <<>> ELSE mbox0[1]
        cur == IF mbox = None THEN <<>> ELSE mbox[1]
    IN  ( /\ pc \in {"exit0", "raised"}
          /\ Len(argv) = 2 /\ argv[2].num /\ K >= 1 /\ K = Len(history)
          /\ \A j \in 1..Len(history) : history[j] # None
          /\ (ret \notin {NoRet, 0} => head = 1) )
        => ( /\ pc = "raised" /\ err = "Exception"
             /\ appends = K
             /\ checkouts = K
             /\ Len(cur) = Len(old) + 3 * K )

====
